---- MODULE Spec2Model ----
(***************************************************************************)
(* Verification model of the gossip-glomers nodes: the replicated log      *)
(* (src/bin/kafka.rs) with its RPC correlator and the event loop of        *)
(* src/lib.rs, the grow-only counter (src/bin/counter.rs), the gossip     *)
(* broadcast (src/bin/broadcast.rs) and the unique ids node                *)
(* (src/bin/unique_ids.rs).                                                *)
(*                                                                         *)
(* Each node kind has its own specification over its own variables; the    *)
(* variables of the other kinds stay at their initial values.              *)
(***************************************************************************)
EXTENDS Integers, Sequences, FiniteSets, TLC

(***************************************************************************)
(* Bounds of the model.                                                    *)
(***************************************************************************)
\* number of send requests the clients issue to the log (SpecLog)
MaxSends == 3
\* the candidate offsets of the CAS retry loop are told apart up to MaxStart;
\* it is above the number of sends, so above every value of latest:{key}
MaxStart == 4
\* number of poll requests the clients issue to the log
MaxPolls == 1
\* largest message id a log node takes from its id counter (SpecRpc)
MaxId == 6
\* number of replies the network delivers a second time
MaxDups == 1
\* largest sum of the deltas of the add requests the clients issue
MaxTotal == 3
\* the values the clients broadcast are 1..MaxValue
MaxValue == 1
\* message ids and id counters given to into_reply are at most MaxIn
MaxIn == 2
\* the clients send MaxGen generate requests
MaxGen == 3

(***************************************************************************)
(* Replicated log: constants of the program.                               *)
(***************************************************************************)
KNodes == {"n1"}
Keys == {"k1", "k2"}
\* the clients send distinct values: request h carries MsgOf(h)
MsgOf(h) == 10 + h
Sends == 1..MaxSends
\* kafka.rs:142, the name of the linearizable store service
storage == "lin-kv"
\* Option::None of Body.id / Body.in_reply_to
NoId == -1
\* kafka.rs:141, the first value of the id counter
FirstId == 1
\* error codes of the store (lib.rs:89, 102-103)
KeyDoesNotExist == "KeyDoesNotExist"
PreconditionFailed == "PreconditionFailed"

\* Option::None of the `id` argument of into_reply
NoCounter == -1

NoCall == [type |-> "none"]
NoMsg == [src |-> "", dest |-> "", id |-> NoId, in_reply_to |-> NoId,
          payload |-> NoCall]

VARIABLES
    \* ---- replicated log: store and send handlers ----
    kv,         \* the lin-kv store: partial function key string -> i64
    pc,         \* pc[h]: position of send handler h
    hkey,       \* hkey[h]: key of send request h
    hmsg,       \* hmsg[h]: msg of send request h
    start,      \* start[h]: the local `start` of send handler h
    acked,      \* acked[h]: TRUE when send_ok was written to the output
    call,       \* call[h]: the store request handler h is waiting on
    lastPoll,   \* the last poll request handled and its poll_ok
    polls,      \* number of poll requests handled
    \* ---- replicated log: RPC correlator and event loop ----
    kid,        \* kid[n]: KafkaNode.id, the AtomicUsize id counter of node n
    ids,        \* ids[n]: the ids node n gave to its outbound messages, in
                \* the order it took them
    rpc,        \* rpc[n]: KafkaNode.rpc, pending table id -> waiting handler
    locks,      \* locks[h]: the mutexes of its node ("rpc", "stdout") the
                \* task of handler h holds while it is suspended
    wire,       \* messages in flight between the nodes and the store
    dups,       \* number of duplicate deliveries so far
    hnode,      \* hnode[h]: the node that handles send request h
    sent,       \* sent[h]: body.id of the request the current rpc call sent
    rx,         \* rx[h]: message delivered to the oneshot receiver of h
    reply,      \* reply[h]: the reply envelope of handler h
    panicked,   \* panicked[n]: a handler task of node n panicked
    closed,     \* closed[n]: the input stream of node n is closed
    eof,        \* eof[n]: Event::EOF events put on the event channel of n
    result      \* result[n]: what event_loop of node n returned

logVars == <<kv, pc, hkey, hmsg, start, acked, call, lastPoll, polls>>
rpcVars == <<kid, ids, rpc, locks, wire, dups, hnode, sent, rx, reply,
             panicked, closed, eof, result>>

VARIABLES
    \* ---- Message::into_reply on its own ----
    orig,       \* the message into_reply is called on
    idArg,      \* the value of the counter passed as `id`, NoCounter for None
    made,       \* the message into_reply returned, NoMsg before the call
    idAfter     \* the value of the counter after the call

envVars == <<orig, idArg, made, idAfter>>

VARIABLES
    \* ---- replicated log: committed offsets ----
    commits,    \* the offsets the clients committed and the node acknowledged
                \* with commit_offsets_ok: partial function key -> offset
    lastList    \* the last list_committed_offsets request handled, the
                \* commits acknowledged before it, and its reply

commitVars == <<commits, lastList>>

VARIABLES
    \* ---- counter (counter.rs) ----
    counter,    \* counter[n]: CounterNode.counter, the shard map of node n
    syncs,      \* sync messages sent; any of them may arrive, at any time,
                \* any number of times
    pos,        \* pos[n]: index in `nodes` the running timer handler of n
                \* has reached, 0 when none is running
    added,      \* added[n]: sum of the deltas of the adds n has applied
    stale,      \* TRUE once a sync carrying less than the stored shard arrived
    lastRead    \* the last read request handled and the value returned

counterVars == <<counter, syncs, pos, added, stale, lastRead>>

VARIABLES
    \* ---- broadcast (broadcast.rs) ----
    msgs,       \* msgs[n]: BroadcastNode.msgs
    neighbors,  \* neighbors[n]: BroadcastNode.neighbors
    known,      \* known[n][m]: BroadcastNode.known
    gossips,    \* gossip messages sent; any of them may arrive, at any time,
                \* any number of times
    topology,   \* the topology map the topology messages carry
    lastSeen    \* the last read request handled and its read_ok

bcastVars == <<msgs, neighbors, known, gossips, topology, lastSeen>>

VARIABLES
    \* ---- unique ids (unique_ids.rs) ----
    uid,        \* uid[n]: UniqueIdsNode.id, the counter of node n
    gpc,        \* gpc[g]: where the handler of generate request g stands
    gnode,      \* gnode[g]: the node request g was sent to
    gid,        \* gid[g]: the msg_id of the reply to request g
    guid        \* guid[g]: the id string of the generate_ok of request g

uidVars == <<uid, gpc, gnode, gid, guid>>

vars ==
    <<envVars, logVars, commitVars, rpcVars, counterVars, bcastVars, uidVars>>

(***************************************************************************)
(* Payloads (kafka.rs:15-62) and key formats (kafka.rs:180, 203).          *)
(***************************************************************************)
Read(key) == [type |-> "read", key |-> key]
ReadOk(value) == [type |-> "read_ok", value |-> value]
Error(code) == [type |-> "error", code |-> code]
Write(key, value) == [type |-> "write", key |-> key, value |-> value]
WriteOk == [type |-> "write_ok"]
Cas(key, from, to, put) ==
    [type |-> "cas", key |-> key, from |-> from, to |-> to, put |-> put]
CasOk == [type |-> "cas_ok"]
SendOk(offset) == [type |-> "send_ok", offset |-> offset]
PollOk(entries) == [type |-> "poll_ok", msgs |-> entries]
CommitOffsetsOk == [type |-> "commit_offsets_ok"]
ListCommittedOffsetsOk(offsets) ==
    [type |-> "list_committed_offsets_ok", offsets |-> offsets]

\* format!("latest:{}", key)
latest_key(key) == "latest:" \o key
\* format!("{}:{}", key, start)
msg_key(key, offset) == key \o ":" \o ToString(offset)

(***************************************************************************)
(* The linearizable store, as the KV trait documents it (lib.rs:88-106):   *)
(* the store after request p and the payload it answers with.              *)
(***************************************************************************)
CasApplies(store, p) ==
    IF p.key \in DOMAIN store THEN store[p.key] = p.from ELSE p.put

KVApply(store, p) ==
    CASE p.type = "read" ->
           [kv |-> store,
            reply |-> IF p.key \in DOMAIN store THEN ReadOk(store[p.key])
                                                ELSE Error(KeyDoesNotExist)]
      [] p.type = "write" ->
           [kv |-> (p.key :> p.value) @@ store, reply |-> WriteOk]
      [] p.type = "cas" ->
           IF CasApplies(store, p)
             THEN [kv |-> (p.key :> p.to) @@ store, reply |-> CasOk]
             ELSE [kv |-> store,
                   reply |-> Error(IF p.key \in DOMAIN store
                                     THEN PreconditionFailed
                                     ELSE KeyDoesNotExist)]

(***************************************************************************)
(* KafkaNode::handle, Payload::Send (kafka.rs:178-219): what the handler   *)
(* does when the store call it waits on returns payload r.                 *)
(***************************************************************************)
\* an absent latest:{key} taken as offset 1
FirstStartOne(r) == IF r.type = "read_ok" THEN r.value ELSE 1

\* kafka.rs:97-107 and 181-188: the offset read, 0 when the read failed
FirstStart(r) == IF r.type = "read_ok" THEN r.value ELSE 0

\* kafka.rs:191-196: the CAS of one iteration of the loop
CasRequest(key, curr) == Cas(latest_key(key), curr - 1, curr, TRUE)

\* kafka.rs:209-212: the write of latest:{key}
LatestWrite(key, offset) == Write(latest_key(key), offset)

\* kafka.rs:118-128: KafkaNode::cas is Ok exactly on cas_ok
CasSucceeded(r) == r.type = "cas_ok"

\* kafka.rs:199, start += 1.  A candidate at MaxStart or above is more than
\* one above every offset the store can hold, so its CAS fails like the CAS
\* of every higher candidate; these candidates are kept as MaxStart and
\* MaxStart + 1 in turn.
NextStart(s) ==
    IF s < MaxStart THEN s + 1
    ELSE IF s = MaxStart THEN MaxStart + 1 ELSE MaxStart

HandlerStep(h, r) ==
    CASE pc[h] = "read" ->
           [pc |-> "cas", start |-> FirstStart(r),
            call |-> CasRequest(hkey[h], FirstStart(r))]
      [] pc[h] = "cas" /\ CasSucceeded(r) ->
           [pc |-> "write_msg", start |-> start[h],
            call |-> Write(msg_key(hkey[h], start[h]), hmsg[h])]
      [] pc[h] = "cas" /\ ~CasSucceeded(r) ->
           [pc |-> "cas", start |-> NextStart(start[h]),
            call |-> CasRequest(hkey[h], NextStart(start[h]))]
      [] pc[h] = "write_msg" ->
           [pc |-> "write_latest", start |-> start[h],
            call |-> LatestWrite(hkey[h], start[h])]
      [] pc[h] = "write_latest" ->
           [pc |-> "done", start |-> start[h], call |-> NoCall]

(***************************************************************************)
(* The log over the store: every store call of a handler takes effect at   *)
(* one instant, between the other handlers' calls.                         *)
(***************************************************************************)
\* a send request is dispatched; the handler reads latest:{key}
Send(h, key, msg) ==
    /\ pc[h] = "new"
    /\ \A g \in Sends : g < h => pc[g] # "new"
    /\ pc' = [pc EXCEPT ![h] = "read"]
    /\ hkey' = [hkey EXCEPT ![h] = key]
    /\ hmsg' = [hmsg EXCEPT ![h] = msg]
    /\ call' = [call EXCEPT ![h] = Read(latest_key(key))]
    /\ UNCHANGED <<kv, start, acked, lastPoll, polls, rpcVars>>
    /\ UNCHANGED <<envVars, commitVars, counterVars, bcastVars, uidVars>>

\* a send request that arrives when every earlier send has been answered
SendAlone(h, key, msg) ==
    /\ \A g \in Sends : pc[g] \in {"new", "done"}
    /\ Send(h, key, msg)

\* the store serves the call of handler h, which runs on to its next call
\* or to its send_ok
Serve(h) ==
    /\ call[h] # NoCall
    /\ LET out == KVApply(kv, call[h])
           nxt == HandlerStep(h, out.reply)
       IN  /\ kv' = out.kv
           /\ pc' = [pc EXCEPT ![h] = nxt.pc]
           /\ start' = [start EXCEPT ![h] = nxt.start]
           /\ call' = [call EXCEPT ![h] = nxt.call]
           /\ acked' = [acked EXCEPT ![h] = (nxt.pc = "done")]
    /\ UNCHANGED <<hkey, hmsg, lastPoll, polls, rpcVars>>
    /\ UNCHANGED <<envVars, commitVars, counterVars, bcastVars, uidVars>>

(***************************************************************************)
(* KafkaNode::handle, Payload::Poll (kafka.rs:220-228).                    *)
(***************************************************************************)
EmptyMap == [x \in {} |-> 0]

\* the (offset, value) pairs of the sends to key acknowledged so far
Acked(key) ==
    {<<start[h], hmsg[h]>> : h \in {g \in Sends : acked[g] /\ hkey[g] = key}}

PollReply(offsets) == PollOk(EmptyMap)

Poll(key, s) ==
    /\ polls < MaxPolls
    /\ lastPoll' = [key |-> key, offset |-> s, ackedBefore |-> Acked(key),
                    reply |-> PollReply((key :> s))]
    /\ polls' = polls + 1
    /\ UNCHANGED <<kv, pc, hkey, hmsg, start, acked, call, rpcVars>>
    /\ UNCHANGED <<envVars, commitVars, counterVars, bcastVars, uidVars>>

(***************************************************************************)
(* KafkaNode::handle, Payload::CommitOffsets and ListCommittedOffsets       *)
(* (kafka.rs:229-244).  The node keeps no state for them.                  *)
(***************************************************************************)
\* the reply to commit_offsets {offsets}
CommitReply(offsets) == CommitOffsetsOk

\* commit_offsets {offsets: {key: o}} is answered with commit_offsets_ok
CommitOffsets(key, o) ==
    /\ CommitReply((key :> o)) = CommitOffsetsOk
    /\ commits' = (key :> o) @@ commits
    /\ UNCHANGED lastList
    /\ UNCHANGED <<envVars, logVars, rpcVars, counterVars, bcastVars, uidVars>>

\* the reply to list_committed_offsets {keys}
ListReply(keys) == ListCommittedOffsetsOk(EmptyMap)

ListCommittedOffsets(key) ==
    /\ lastList' = [key |-> key, committed |-> commits,
                    reply |-> ListReply(<<key>>)]
    /\ UNCHANGED commits
    /\ UNCHANGED <<envVars, logVars, rpcVars, counterVars, bcastVars, uidVars>>

(***************************************************************************)
(* KafkaNode::rpc (kafka.rs:78-92): take an id, register the waiter, send. *)
(***************************************************************************)
\* a counter that is read and not advanced
fetch_same(c) == c

\* AtomicUsize::fetch_add(1, SeqCst) on a counter of value c returns c; this
\* is the value of the counter after the call
fetch_add(c) == c + 1

\* a handler that keeps the guard of the table while it waits
HeldTable == {"rpc"}

\* the mutexes a handler holds when it suspends in rx.await (kafka.rs:91):
\* the guard of self.rpc.lock() is a temporary of line 89 and the guard of
\* the output is local to Message::send (lib.rs:48-56), so none
HeldInAwait == {}

\* mutex `lock` of node n is not held by a suspended task
Free(n, lock) == \A g \in Sends : hnode[g] = n => lock \notin locks[g]

RpcRequest(n, i, payload) ==
    [src |-> n, dest |-> storage, id |-> i, in_reply_to |-> NoId,
     payload |-> payload]

\* handler h on node n calls rpc(storage, payload); `i` is the value of the
\* id counter when the call starts
RpcCall(h, n, i, payload) ==
    /\ i <= MaxId
    /\ Free(n, "rpc")
    /\ Free(n, "stdout")
    /\ locks' = [locks EXCEPT ![h] = HeldInAwait]
    /\ kid' = [kid EXCEPT ![n] = fetch_add(i)]
    /\ ids' = [ids EXCEPT ![n] = Append(@, i)]
    /\ rpc' = [rpc EXCEPT ![n] = (i :> h) @@ @]
    /\ wire' = wire \cup {RpcRequest(n, i, payload)}
    /\ sent' = [sent EXCEPT ![h] = i]
    /\ rx' = [rx EXCEPT ![h] = NoMsg]

(***************************************************************************)
(* Message::into_reply (lib.rs:31-41).                                     *)
(***************************************************************************)
\* a reply that keeps the addresses of the message it answers
into_reply_same(m, i) ==
    [src |-> m.src, dest |-> m.dest, id |-> i, in_reply_to |-> m.id,
     payload |-> m.payload]

\* the reply to m with body.id = i
into_reply(m, i) ==
    [src |-> m.dest, dest |-> m.src, id |-> i, in_reply_to |-> m.id,
     payload |-> m.payload]

\* lib.rs:36, id.map(|id| id.fetch_add(1, SeqCst)): the id of the reply for
\* a counter of value c, and the counter after the call
ReplyId(c) == IF c = NoCounter THEN NoId ELSE c
CounterAfter(c) == IF c = NoCounter THEN NoCounter ELSE fetch_add(c)

\* into_reply is called on `orig` with the counter `idArg`
IntoReply ==
    /\ made = NoMsg
    /\ made' = into_reply(orig, ReplyId(idArg))
    /\ idAfter' = CounterAfter(idArg)
    /\ UNCHANGED <<orig, idArg>>
    /\ UNCHANGED <<logVars, commitVars, rpcVars, counterVars, bcastVars,
                   uidVars>>

(***************************************************************************)
(* KafkaNode::handle on a node, with its store calls made through rpc.     *)
(***************************************************************************)
ClientMsg(h, n, payload) ==
    [src |-> "c1", dest |-> n, id |-> h, in_reply_to |-> NoId,
     payload |-> payload]

\* the handler task of send request h is spawned and has not finished
Running(h) == pc[h] \notin {"new", "done"}

\* a send request is dispatched on node n and its handler task builds the
\* reply envelope (kafka.rs:176): into_reply takes an id from the counter
RecvSend(h, n, key, msg) ==
    /\ pc[h] = "new"
    /\ \A g \in Sends : g < h => pc[g] # "new"
    /\ ~closed[n]
    /\ kid[n] <= MaxId
    /\ hnode' = [hnode EXCEPT ![h] = n]
    /\ hkey' = [hkey EXCEPT ![h] = key]
    /\ hmsg' = [hmsg EXCEPT ![h] = msg]
    /\ reply' = [reply EXCEPT ![h] =
           into_reply(ClientMsg(h, n, [type |-> "send", key |-> key,
                                       msg |-> msg]), kid[n])]
    /\ kid' = [kid EXCEPT ![n] = fetch_add(@)]
    /\ ids' = [ids EXCEPT ![n] = Append(@, kid[n])]
    /\ pc' = [pc EXCEPT ![h] = "start"]
    /\ UNCHANGED <<kv, start, acked, call, lastPoll, polls, rpc, locks, wire,
                   dups, sent, rx, panicked, closed, eof, result>>
    /\ UNCHANGED <<envVars, commitVars, counterVars, bcastVars, uidVars>>

\* the handler of send request h reads latest:{key} (kafka.rs:180-183)
ReadLatest(h) ==
    /\ pc[h] = "start"
    /\ RpcCall(h, hnode[h], kid[hnode[h]], Read(latest_key(hkey[h])))
    /\ pc' = [pc EXCEPT ![h] = "read"]
    /\ UNCHANGED <<kv, hkey, hmsg, start, acked, call, lastPoll, polls, dups,
                   hnode, reply, panicked, closed, eof, result>>
    /\ UNCHANGED <<envVars, commitVars, counterVars, bcastVars, uidVars>>

\* the store serves one request in flight and answers it
KVReply(req, payload) ==
    [src |-> req.dest, dest |-> req.src, id |-> NoId,
     in_reply_to |-> req.id, payload |-> payload]

StoreStep(req) ==
    /\ req \in wire
    /\ req.dest = storage
    /\ LET out == KVApply(kv, req.payload)
       IN  /\ kv' = out.kv
           /\ wire' = (wire \ {req}) \cup {KVReply(req, out.reply)}
    /\ UNCHANGED <<pc, hkey, hmsg, start, acked, call, lastPoll, polls, kid,
                   ids, rpc, locks, dups, hnode, sent, rx, reply, panicked,
                   closed, eof, result>>
    /\ UNCHANGED <<envVars, commitVars, counterVars, bcastVars, uidVars>>

\* the rpc call of handler h returned (kafka.rs:91): the handler runs on to
\* its next rpc call or to its send_ok (kafka.rs:214-218)
Resume(h) ==
    /\ rx[h] # NoMsg
    /\ LET nxt == HandlerStep(h, rx[h].payload)
       IN  /\ pc' = [pc EXCEPT ![h] = nxt.pc]
           /\ start' = [start EXCEPT ![h] = nxt.start]
           /\ IF nxt.pc = "done"
                THEN /\ Free(hnode[h], "stdout")
                     /\ locks' = [locks EXCEPT ![h] = {}]
                     /\ reply' = [reply EXCEPT ![h].payload = SendOk(start[h])]
                     /\ acked' = [acked EXCEPT ![h] = TRUE]
                     /\ rx' = [rx EXCEPT ![h] = NoMsg]
                     /\ sent' = [sent EXCEPT ![h] = NoId]
                     /\ UNCHANGED <<kid, ids, rpc, wire>>
                ELSE /\ RpcCall(h, hnode[h], kid[hnode[h]], nxt.call)
                     /\ UNCHANGED <<reply, acked>>
    /\ UNCHANGED <<kv, hkey, hmsg, call, lastPoll, polls, dups, hnode,
                   panicked, closed, eof, result>>
    /\ UNCHANGED <<envVars, commitVars, counterVars, bcastVars, uidVars>>

(***************************************************************************)
(* KafkaNode::handle, RPC responses (kafka.rs:166-174).                    *)
(***************************************************************************)
\* a table that hands out its oldest entry whatever id the reply carries
WaiterOldest(table, i) ==
    table[CHOOSE j \in DOMAIN table : \A k \in DOMAIN table : j <= k]

\* self.rpc.lock().await.remove(&id): the waiter registered under id
Waiter(table, i) == table[i]

\* a table that keeps the entry it hands out
RemoveKeeps(table, i) == table

\* HashMap::remove: the table without the entry of id i
Remove(table, i) == [j \in DOMAIN table \ {i} |-> table[j]]

\* the handler of node n runs on a message that carries in_reply_to
HandleResponse(n, m) ==
    /\ Free(n, "rpc")
    /\ IF m.in_reply_to \in DOMAIN rpc[n]
         THEN /\ rx' = [rx EXCEPT ![Waiter(rpc[n], m.in_reply_to)] = m]
              /\ rpc' = [rpc EXCEPT ![n] = Remove(@, m.in_reply_to)]
              /\ panicked' = panicked
         ELSE \* Option::unwrap on None: the task panics
              /\ panicked' = [panicked EXCEPT ![n] = TRUE]
              /\ UNCHANGED <<rx, rpc>>

\* a reply of the store reaches its node
RecvReply(m) ==
    /\ m \in wire
    /\ m.dest \in KNodes
    /\ ~closed[m.dest]
    /\ HandleResponse(m.dest, m)
    /\ wire' = wire \ {m}
    /\ UNCHANGED <<logVars, kid, ids, locks, dups, hnode, sent, reply, closed,
                   eof, result>>
    /\ UNCHANGED <<envVars, commitVars, counterVars, bcastVars, uidVars>>

\* a reply reaches its node and the network keeps a copy that it delivers
\* again later
RecvDuplicated(m) ==
    /\ m \in wire
    /\ m.dest \in KNodes
    /\ ~closed[m.dest]
    /\ dups < MaxDups
    /\ HandleResponse(m.dest, m)
    /\ dups' = dups + 1
    /\ UNCHANGED <<logVars, kid, ids, locks, wire, hnode, sent, reply, closed,
                   eof, result>>
    /\ UNCHANGED <<envVars, commitVars, counterVars, bcastVars, uidVars>>

(***************************************************************************)
(* event_loop (lib.rs:190-218).                                            *)
(***************************************************************************)
\* the number of events a future of Sender::send puts on the channel: the
\* future sends only when it is polled
Delivered(polled) == IF polled THEN 1 ELSE 0

\* the input stream of node n ends: the reader task builds the future of
\* tx.send(Event::EOF) and drops it without awaiting it (lib.rs:201), then
\* returns; the channel closes and the dispatch loop ends
StdinClose(n) ==
    /\ ~closed[n]
    /\ closed' = [closed EXCEPT ![n] = TRUE]
    /\ eof' = [eof EXCEPT ![n] = @ + Delivered(FALSE)]
    /\ UNCHANGED <<logVars, kid, ids, rpc, locks, wire, dups, hnode, sent, rx,
                   reply, panicked, result>>
    /\ UNCHANGED <<envVars, commitVars, counterVars, bcastVars, uidVars>>

\* join_next has returned every task; its results are discarded (lib.rs:216)
\* and event_loop returns Ok(()) (lib.rs:218)
LoopResult(taskPanicked) == "Ok"

EventLoopReturn(n) ==
    /\ closed[n]
    /\ result[n] = "running"
    /\ \A h \in Sends : hnode[h] = n => ~Running(h)
    /\ result' = [result EXCEPT ![n] = LoopResult(panicked[n])]
    /\ UNCHANGED <<logVars, kid, ids, rpc, locks, wire, dups, hnode, sent, rx,
                   reply, panicked, closed, eof>>
    /\ UNCHANGED <<envVars, commitVars, counterVars, bcastVars, uidVars>>

(***************************************************************************)
(* Counter node (counter.rs): a grow-only counter with one shard per node. *)
(***************************************************************************)
\* Init.node_ids, in the order the handshake lists them
nodes == <<"n1", "n2">>
CNodes == {nodes[i] : i \in 1..Len(nodes)}

RECURSIVE SumOver(_, _)
SumOver(f, S) ==
    IF S = {} THEN 0
    ELSE LET x == CHOOSE y \in S : TRUE IN f[x] + SumOver(f, S \ {x})

\* counter.rs:89, the value of read_ok: the sum of the shard map
ReadValue(n) == SumOver(counter[n], DOMAIN counter[n])

Sync(src, dest, value) == [src |-> src, dest |-> dest, value |-> value]

\* an add that stores the delta over the shard
IncrementAssign(current, delta) == delta

\* counter.rs:79, `*current += delta` with the lock on the shard map held
Increment(current, delta) == current + delta

\* counter.rs:77-86: add to the shard of reply.src, the node itself
Add(n, delta) ==
    /\ SumOver(added, CNodes) + delta <= MaxTotal
    /\ counter' = [counter EXCEPT ![n][n] = Increment(@, delta)]
    /\ added' = [added EXCEPT ![n] = @ + delta]
    /\ UNCHANGED <<syncs, pos, stale, lastRead>>
    /\ UNCHANGED <<envVars, logVars, commitVars, rpcVars, bcastVars, uidVars>>

\* counter.rs:88-95
CounterRead(n) ==
    /\ lastRead' = [node |-> n, value |-> ReadValue(n)]
    /\ UNCHANGED <<counter, syncs, pos, added, stale>>
    /\ UNCHANGED <<envVars, logVars, commitVars, rpcVars, bcastVars, uidVars>>

\* a merge into reply.src, the shard of the receiving node
SyncShardOwn(m) == m.dest

\* counter.rs:98, the shard a sync is merged into: reply.dest, the sender
SyncShard(m) == m.src

\* a merge that stores the received value
MergeAssign(current, value) == value

\* a merge that adds the received value
MergeSum(current, value) == current + value

\* counter.rs:99, the merge of a received value into the stored one
Merge(current, value) == IF current >= value THEN current ELSE value

\* a sync whose value is added to the shard of the sender
MergeSyncSum(shards, m) ==
    [shards EXCEPT ![SyncShard(m)] = @ + m.value]

\* counter.rs:98-100, the shard map of the receiver after a sync message
MergeSync(shards, m) ==
    [shards EXCEPT ![SyncShard(m)] = Merge(@, m.value)]

\* counter.rs:97-101: a sync message arrives
RecvSync(m) ==
    /\ m \in syncs
    /\ counter' = [counter EXCEPT ![m.dest] = MergeSync(@, m)]
    /\ stale' = (stale \/ m.value < counter[m.dest][SyncShard(m)])
    /\ UNCHANGED <<syncs, pos, added, lastRead>>
    /\ UNCHANGED <<envVars, logVars, commitVars, rpcVars, bcastVars, uidVars>>

\* the next index of `nodes` after i that is not the node itself, 0 if none
NextPeer(n, i) ==
    LET later == {j \in (i + 1)..Len(nodes) : nodes[j] # n}
    IN  IF later = {} THEN 0 ELSE CHOOSE j \in later : \A k \in later : j <= k

\* counter.rs:104-106: the timer event is dispatched and its handler starts
\* the loop over `nodes`
Injected(n) ==
    /\ pos[n] = 0
    /\ NextPeer(n, 0) # 0
    /\ pos' = [pos EXCEPT ![n] = NextPeer(n, 0)]
    /\ UNCHANGED <<counter, syncs, added, stale, lastRead>>
    /\ UNCHANGED <<envVars, logVars, commitVars, rpcVars, bcastVars, uidVars>>

\* counter.rs:107-121: one iteration: read the own shard, send it to a peer
SyncStep(n) ==
    /\ pos[n] # 0
    /\ syncs' = syncs \cup {Sync(n, nodes[pos[n]], counter[n][n])}
    /\ pos' = [pos EXCEPT ![n] = NextPeer(n, pos[n])]
    /\ UNCHANGED <<counter, added, stale, lastRead>>
    /\ UNCHANGED <<envVars, logVars, commitVars, rpcVars, bcastVars, uidVars>>

(***************************************************************************)
(* Broadcast node (broadcast.rs): gossip of a set of values.  The handler  *)
(* takes &mut self: a node handles one event at a time.                    *)
(***************************************************************************)
BNodes == {"n1", "n2", "n3"}
Values == 1..MaxValue

Gossip(src, dest, seen) == [src |-> src, dest |-> dest, seen |-> seen]

\* an update that replaces the set by the values received
ObserveReplace(set, seen) == seen

\* HashSet::extend / HashSet::insert (broadcast.rs:98, 99, 102)
Observe(set, seen) == set \cup seen

\* broadcast.rs:101-105
Broadcast(n, v) ==
    /\ msgs' = [msgs EXCEPT ![n] = Observe(@, {v})]
    /\ UNCHANGED <<neighbors, known, gossips, topology, lastSeen>>
    /\ UNCHANGED <<envVars, logVars, commitVars, rpcVars, counterVars, uidVars>>

\* broadcast.rs:107-112
BroadcastRead(n) ==
    /\ lastSeen' = [node |-> n, msgs |-> msgs[n]]
    /\ UNCHANGED <<msgs, neighbors, known, gossips, topology>>
    /\ UNCHANGED <<envVars, logVars, commitVars, rpcVars, counterVars, uidVars>>

\* broadcast.rs:114-120: the node takes its own entry of the topology map
Topology(n) ==
    /\ neighbors' = [neighbors EXCEPT ![n] = topology[n]]
    /\ UNCHANGED <<msgs, known, gossips, topology, lastSeen>>
    /\ UNCHANGED <<envVars, logVars, commitVars, rpcVars, counterVars, uidVars>>

\* an entry taken under the receiving node
GossipFromSelf(m) == m.dest

\* broadcast.rs:96, the entry of `known` a gossip message is added to:
\* reply.dest, the sender of the message
GossipFrom(m) == m.src

\* broadcast.rs:94-100: a gossip message arrives
RecvGossip(m) ==
    /\ m \in gossips
    /\ known' = [known EXCEPT ![m.dest][GossipFrom(m)] = Observe(@, m.seen)]
    /\ msgs' = [msgs EXCEPT ![m.dest] = Observe(@, m.seen)]
    /\ UNCHANGED <<neighbors, gossips, topology, lastSeen>>
    /\ UNCHANGED <<envVars, logVars, commitVars, rpcVars, counterVars, uidVars>>

\* the difference taken the wrong way round
UnknownReversed(n, neighbor) == known[n][neighbor] \ msgs[n]

\* broadcast.rs:127, what the node sends to a neighbor
Unknown(n, neighbor) == msgs[n] \ known[n][neighbor]

\* a tick that takes what it sends to a neighbor as known to that neighbor
KnownAfterTickSent(n) ==
    [p \in BNodes |-> IF p \in neighbors[n] THEN known[n][p] \cup msgs[n]
                                            ELSE known[n][p]]

\* broadcast.rs:126, the peer knowledge of node n after its tick: the
\* handler only reads self.known
KnownAfterTick(n) == known[n]

\* broadcast.rs:124-139: the timer event
GossipTick(n) ==
    /\ gossips' = gossips \cup
         {Gossip(n, neighbor, Unknown(n, neighbor)) : neighbor \in neighbors[n]}
    /\ known' = [known EXCEPT ![n] = KnownAfterTick(n)]
    /\ UNCHANGED <<msgs, neighbors, topology, lastSeen>>
    /\ UNCHANGED <<envVars, logVars, commitVars, rpcVars, counterVars, uidVars>>

\* the topology maps the clients may distribute
Topo(a, b, c) == [n \in BNodes |-> CASE n = "n1" -> a [] n = "n2" -> b
                                      [] n = "n3" -> c]
Ring == Topo({"n2"}, {"n3"}, {"n1"})
Chain == Topo({"n2"}, {"n3"}, {})
Split == Topo({"n2"}, {"n1"}, {})
Topologies == {Ring, Chain, Split}

\* the nodes reachable from n along neighbor edges of topology t
RECURSIVE ReachFrom(_, _)
ReachFrom(t, S) ==
    LET T == S \cup UNION {t[x] : x \in S}
    IN  IF T = S THEN S ELSE ReachFrom(t, T)

Connected(t) == \A n \in BNodes : ReachFrom(t, {n}) = BNodes

(***************************************************************************)
(* Unique ids node (unique_ids.rs).  event_loop spawns one task per        *)
(* request (lib.rs:205-214), so the handlers of one node interleave at     *)
(* every access to the shared counter.                                     *)
(***************************************************************************)
UNodes == {"n1", "n2"}
Gens == 1..MaxGen

\* unique_ids.rs:47, format!("{}-{}", self.node, counter)
Guid(node, c) == node \o "-" \o ToString(c)

\* unique_ids.rs:41-44: a generate request is dispatched to node n and its
\* handler builds the reply: into_reply takes the counter and advances it
RecvGenerate(g, n) ==
    /\ gpc[g] = "new"
    /\ \A f \in Gens : f < g => gpc[f] # "new"
    /\ gnode' = [gnode EXCEPT ![g] = n]
    /\ gid' = [gid EXCEPT ![g] = ReplyId(uid[n])]
    /\ uid' = [uid EXCEPT ![n] = CounterAfter(@)]
    /\ gpc' = [gpc EXCEPT ![g] = "load"]
    /\ UNCHANGED guid
    /\ UNCHANGED <<envVars, logVars, commitVars, rpcVars, counterVars,
                   bcastVars>>

\* unique_ids.rs:46-50: the handler loads the counter again, formats the id
\* and sends generate_ok
LoadGuid(g) ==
    /\ gpc[g] = "load"
    /\ guid' = [guid EXCEPT ![g] = Guid(gnode[g], uid[gnode[g]])]
    /\ gpc' = [gpc EXCEPT ![g] = "done"]
    /\ UNCHANGED <<uid, gnode, gid>>
    /\ UNCHANGED <<envVars, logVars, commitVars, rpcVars, counterVars,
                   bcastVars>>

(***************************************************************************)
(* Initial states.                                                         *)
(***************************************************************************)
NoPoll == [key |-> "", offset |-> 0, ackedBefore |-> {}, reply |-> NoCall]

\* no call of into_reply on its own
EnvelopeIdle ==
    /\ orig = NoMsg
    /\ idArg = NoCounter
    /\ made = NoMsg
    /\ idAfter = NoCounter

\* the messages and counters into_reply is called with
Peers == {"c1", "n1", "n2"}
Requests ==
    [src : Peers, dest : Peers, id : {NoId} \cup 0..MaxIn,
     in_reply_to : {NoId}, payload : {Read("k1"), WriteOk}]
Counters == {NoCounter} \cup 0..MaxIn

EnvelopeInit ==
    /\ orig \in Requests
    /\ idArg \in Counters
    /\ made = NoMsg
    /\ idAfter = NoCounter

NoList == [key |-> "", committed |-> EmptyMap, reply |-> NoCall]

KafkaInit ==
    /\ kv = [x \in {} |-> 0]
    /\ pc = [h \in Sends |-> "new"]
    /\ hkey = [h \in Sends |-> ""]
    /\ hmsg = [h \in Sends |-> 0]
    /\ start = [h \in Sends |-> 0]
    /\ acked = [h \in Sends |-> FALSE]
    /\ call = [h \in Sends |-> NoCall]
    /\ lastPoll = NoPoll
    /\ polls = 0
    /\ kid = [n \in KNodes |-> FirstId]
    /\ ids = [n \in KNodes |-> <<>>]
    /\ rpc = [n \in KNodes |-> [x \in {} |-> 0]]
    /\ locks = [h \in Sends |-> {}]
    /\ wire = {}
    /\ dups = 0
    /\ hnode = [h \in Sends |-> ""]
    /\ sent = [h \in Sends |-> NoId]
    /\ rx = [h \in Sends |-> NoMsg]
    /\ reply = [h \in Sends |-> NoMsg]
    /\ panicked = [n \in KNodes |-> FALSE]
    /\ closed = [n \in KNodes |-> FALSE]
    /\ eof = [n \in KNodes |-> 0]
    /\ result = [n \in KNodes |-> "running"]
    /\ commits = EmptyMap
    /\ lastList = NoList

NoRead == [node |-> "", value |-> 0]

\* counter.rs:59-65
CounterInit ==
    /\ counter = [n \in CNodes |-> [m \in CNodes |-> 0]]
    /\ syncs = {}
    /\ pos = [n \in CNodes |-> 0]
    /\ added = [n \in CNodes |-> 0]
    /\ stale = FALSE
    /\ lastRead = NoRead

\* unique_ids.rs:30-33
UniqueIdsInit ==
    /\ uid = [n \in UNodes |-> FirstId]
    /\ gpc = [g \in Gens |-> "new"]
    /\ gnode = [g \in Gens |-> ""]
    /\ gid = [g \in Gens |-> NoId]
    /\ guid = [g \in Gens |-> ""]

NoSeen == [node |-> "", msgs |-> {}]

\* broadcast.rs:71-81
BroadcastInit(topos) ==
    /\ msgs = [n \in BNodes |-> {}]
    /\ neighbors = [n \in BNodes |-> {}]
    /\ known = [n \in BNodes |-> [m \in BNodes |-> {}]]
    /\ gossips = {}
    /\ topology \in topos
    /\ lastSeen = NoSeen

Init ==
    /\ EnvelopeIdle /\ KafkaInit /\ CounterInit /\ BroadcastInit({Ring})
    /\ UniqueIdsInit

(***************************************************************************)
(* Specifications.                                                         *)
(***************************************************************************)
\* into_reply on any message, with or without a counter
EnvelopeStart ==
    /\ EnvelopeInit /\ KafkaInit /\ CounterInit /\ BroadcastInit({Ring})
    /\ UniqueIdsInit

EnvelopeNext == IntoReply

SpecEnvelope == EnvelopeStart /\ [][EnvelopeNext]_vars

\* the log: send and poll handlers over the linearizable store
LogNext ==
    \/ \E h \in Sends, key \in Keys : Send(h, key, MsgOf(h))
    \/ \E h \in Sends : Serve(h)
    \/ \E key \in Keys, s \in 0..1 : Poll(key, s)

SpecLog == Init /\ [][LogNext]_vars

\* the scheduler runs every handler task and the store answers every call
LogFair == \A h \in Sends : WF_vars(Serve(h))

SpecLogLive == SpecLog /\ LogFair

\* the log without contention: a send is dispatched once the send before
\* it has been answered
LogAloneNext ==
    \/ \E h \in Sends, key \in Keys : SendAlone(h, key, MsgOf(h))
    \/ \E h \in Sends : Serve(h)
    \/ \E key \in Keys, s \in 0..1 : Poll(key, s)

SpecLogAlone == Init /\ [][LogAloneNext]_vars

\* the log: the handlers of the committed offsets
CommitNext ==
    \/ \E key \in Keys, o \in 0..MaxStart : CommitOffsets(key, o)
    \/ \E key \in Keys : ListCommittedOffsets(key)

SpecCommit == Init /\ [][CommitNext]_vars

\* a log node: the same handlers with their rpc calls, the replies and the
\* event loop
RpcNext ==
    \/ \E h \in Sends, n \in KNodes : RecvSend(h, n, "k1", MsgOf(h))
    \/ \E h \in Sends : ReadLatest(h)
    \/ \E m \in wire : StoreStep(m)
    \/ \E m \in wire : RecvReply(m)
    \/ \E m \in wire : RecvDuplicated(m)
    \/ \E h \in Sends : Resume(h)
    \/ \E n \in KNodes : StdinClose(n)
    \/ \E n \in KNodes : EventLoopReturn(n)

SpecRpc == Init /\ [][RpcNext]_vars

\* the counter nodes
CounterNext ==
    \/ \E n \in CNodes, delta \in 1..MaxTotal : Add(n, delta)
    \/ \E n \in CNodes : CounterRead(n)
    \/ \E m \in syncs : RecvSync(m)
    \/ \E n \in CNodes : Injected(n)
    \/ \E n \in CNodes : SyncStep(n)

SpecCounter == Init /\ [][CounterNext]_vars

\* the timer of every node keeps firing, its handler keeps running, and
\* every node keeps receiving the sync messages sent to it
CounterFair ==
    \A n \in CNodes :
        /\ WF_vars(Injected(n))
        /\ WF_vars(SyncStep(n))
        /\ WF_vars(\E m \in syncs : m.dest = n /\ RecvSync(m))

SpecCounterLive == SpecCounter /\ CounterFair

\* the broadcast nodes, with the clients reading
BroadcastNext ==
    \/ \E n \in BNodes, v \in Values : Broadcast(n, v)
    \/ \E n \in BNodes : BroadcastRead(n)
    \/ \E n \in BNodes : Topology(n)
    \/ \E m \in gossips : RecvGossip(m)
    \/ \E n \in BNodes : GossipTick(n)

BroadcastStart ==
    /\ EnvelopeIdle /\ KafkaInit /\ CounterInit /\ BroadcastInit(Topologies)
    /\ UniqueIdsInit

\* the reads are followed on the two topologies without a cycle
ReadStart ==
    /\ EnvelopeIdle /\ KafkaInit /\ CounterInit
    /\ BroadcastInit({Chain, Split})
    /\ UniqueIdsInit

SpecBroadcast == ReadStart /\ [][BroadcastNext]_vars

\* every node receives its topology message, its timer keeps firing, and
\* it keeps receiving the gossip messages sent to it
BroadcastFair ==
    \A n \in BNodes :
        /\ WF_vars(Topology(n))
        /\ WF_vars(GossipTick(n))
        /\ WF_vars(\E m \in gossips : m.dest = n /\ RecvGossip(m))

\* the broadcast nodes when the clients only broadcast
GossipNext ==
    \/ \E n \in BNodes, v \in Values : Broadcast(n, v)
    \/ \E n \in BNodes : Topology(n)
    \/ \E m \in gossips : RecvGossip(m)
    \/ \E n \in BNodes : GossipTick(n)

SpecGossip == BroadcastStart /\ [][GossipNext]_vars

SpecBroadcastLive == SpecGossip /\ BroadcastFair

\* the unique ids nodes
UniqueIdsNext ==
    \/ \E g \in Gens, n \in UNodes : RecvGenerate(g, n)
    \/ \E g \in Gens : LoadGuid(g)

SpecUniqueIds == Init /\ [][UniqueIdsNext]_vars

(***************************************************************************)
(* Properties of the replicated log.                                       *)
(***************************************************************************)
SameKey(g, h) == g # h /\ acked[g] /\ acked[h] /\ hkey[g] = hkey[h]

\* C1: no two send requests for the same key are answered with send_ok
\* carrying the same offset, whatever the interleaving of the handlers.
UniqueOffsets ==
    \A g \in Sends, h \in Sends : SameKey(g, h) => start[g] # start[h]

\* C5: for every send(key, v) answered with send_ok{offset: o} the store
\* holds v under {key}:{o} when send_ok is emitted and in every later state.
AckedValueStored ==
    \A h \in Sends :
        acked[h] => /\ msg_key(hkey[h], start[h]) \in DOMAIN kv
                    /\ kv[msg_key(hkey[h], start[h])] = hmsg[h]

\* the pairs a poll from lastPoll.offset must list
Wanted == {p \in lastPoll.ackedBefore : p[1] >= lastPoll.offset}

\* C6: a poll for key k from offset s, handled after sends to k were
\* acknowledged with offsets at or after s, is answered with a poll_ok whose
\* entry for k lists (offset, value) pairs of those sends, all with
\* offset >= s and in increasing offset order.
PollListsAcked ==
    (lastPoll # NoPoll /\ Wanted # {}) =>
        /\ lastPoll.key \in DOMAIN lastPoll.reply.msgs
        /\ LET entry == lastPoll.reply.msgs[lastPoll.key]
           IN  /\ Len(entry) > 0
               /\ \A i \in 1..Len(entry) : entry[i] \in Wanted
               /\ \A i \in 1..(Len(entry) - 1) : entry[i][1] < entry[i + 1][1]

\* C16: the CAS retry loop terminates: with fair scheduling and a store that
\* answers every call, every send that was dispatched is answered with
\* send_ok; no handler retries its CAS forever.
SendsAnswered == <>[](\A h \in Sends : pc[h] = "new" \/ acked[h])

\* the offset stored under latest:{key}, -1 when the key is missing
Latest(key) ==
    IF latest_key(key) \in DOMAIN kv THEN kv[latest_key(key)] ELSE -1

\* C17: the value stored under latest:{key} never decreases, whatever the
\* interleaving of the send handlers.
LatestNeverDecreases ==
    [][\A key \in Keys : Latest(key) <= Latest(key)']_vars

\* C13: after a commit_offsets request with {k: o} was acknowledged, a
\* list_committed_offsets request for k is answered with an offsets map that
\* holds k with the latest committed offset o.
CommittedReported ==
    (lastList # NoList /\ lastList.key \in DOMAIN lastList.committed) =>
        /\ lastList.key \in DOMAIN lastList.reply.offsets
        /\ lastList.reply.offsets[lastList.key] =
               lastList.committed[lastList.key]

(***************************************************************************)
(* Properties of the RPC correlator and the event loop.                    *)
(***************************************************************************)
\* the payloads that answer the call handler h is waiting on
Answers(h) ==
    CASE pc[h] = "read" -> {"read_ok", "error"}
      [] pc[h] = "cas" -> {"cas_ok", "error"}
      [] pc[h] \in {"write_msg", "write_latest"} -> {"write_ok"}
      [] OTHER -> {}

\* C4: each rpc call returns only the message whose in_reply_to is the id
\* of the request this call sent: a reply is never delivered to the waiter
\* of a different request, whatever the order of the replies.
RpcCorrelation ==
    \A h \in Sends :
        rx[h] # NoMsg => /\ rx[h].in_reply_to = sent[h]
                         /\ rx[h].dest = hnode[h]
                         /\ rx[h].payload.type \in Answers(h)

\* two calls are in flight and the reply to the later one came back first
RepliesOutOfOrder ==
    \E g \in Sends, h \in Sends :
        /\ rx[h] # NoMsg
        /\ rx[g] = NoMsg
        /\ sent[g] \in DOMAIN rpc[hnode[h]]
        /\ sent[g] < sent[h]

\* C10: a reply that matches no entry of the pending table is reported as an
\* error outcome of the node: event_loop does not return Ok after it.
UnmatchedReplyReported ==
    \A n \in KNodes : (panicked[n] /\ result[n] # "running") => result[n] = "Err"

\* C15: into_reply(m) has src = m.dest, dest = m.src and in_reply_to = m.id;
\* its id is the value taken from the counter, which is advanced by one, or
\* absent when no counter is passed.
EnvelopeSymmetry ==
    made # NoMsg =>
        /\ made.src = orig.dest
        /\ made.dest = orig.src
        /\ made.in_reply_to = orig.id
        /\ idArg = NoCounter => (made.id = NoId /\ idAfter = NoCounter)
        /\ idArg # NoCounter => (made.id = idArg /\ idAfter = idArg + 1)

\* a reply was made to a message between two different peers, with an id
\* and a counter
ReplyMade ==
    /\ made # NoMsg
    /\ orig.src # orig.dest
    /\ orig.id # NoId
    /\ idArg # NoCounter

\* C14: the ids of a node are never reused: the ids it gives to its rpc
\* requests and replies are pairwise distinct and never 0 (the id of
\* init_ok), under any interleaving of the handlers, and an id given to a
\* new rpc has no waiter pending: the entry of a pending call is its own.
IdsNeverReused ==
    /\ \A n \in KNodes :
          /\ \A i \in 1..Len(ids[n]), j \in 1..Len(ids[n]) :
                i < j => ids[n][i] # ids[n][j]
          /\ \A i \in 1..Len(ids[n]) : ids[n][i] >= FirstId
    /\ \A h \in Sends :
          (sent[h] # NoId /\ sent[h] \in DOMAIN rpc[hnode[h]]) =>
              rpc[hnode[h]][sent[h]] = h
    /\ \A g \in Sends, h \in Sends :
          (g # h /\ hnode[g] = hnode[h] /\ pc[g] # "new" /\ pc[h] # "new") =>
              /\ reply[g].id # reply[h].id
              /\ reply[g].id # sent[h]
              /\ sent[g] # NoId => sent[g] # sent[h]

\* two handlers took their ids in turn: the second handler's reply id lies
\* between the first handler's reply id and the id of its pending rpc
IdsInterleaved ==
    \E g \in Sends, h \in Sends :
        /\ reply[g].id # NoId /\ reply[h].id # NoId
        /\ reply[g].id < reply[h].id
        /\ reply[h].id < sent[g]
        /\ sent[g] < sent[h]
        /\ sent[g] \in DOMAIN rpc[hnode[g]]
        /\ sent[h] \in DOMAIN rpc[hnode[h]]

\* the ids of the rpc calls of node n whose reply has not been handled
Awaited(n) ==
    {sent[h] : h \in {g \in Sends : /\ hnode[g] = n
                                    /\ pc[g] \in {"read", "cas", "write_msg",
                                                  "write_latest"}
                                    /\ rx[g] = NoMsg}}

\* C18: the pending table of a node holds exactly the requests rpc has sent
\* and whose reply has not been handled, each under its own id: none for a
\* reply already handled, none once every call is answered; an entry goes in
\* under a fresh id only and entries leave one at a time, so each is removed
\* exactly once.
PendingTable ==
    /\ [](\A n \in KNodes :
            /\ DOMAIN rpc[n] = Awaited(n)
            /\ \A i \in DOMAIN rpc[n] : sent[rpc[n][i]] = i)
    /\ [][\A n \in KNodes :
            /\ (DOMAIN rpc'[n] \ DOMAIN rpc[n]) \subseteq {kid[n]}
            /\ Cardinality(DOMAIN rpc[n] \ DOMAIN rpc'[n]) <= 1]_vars

\* a send handler made all its calls, every one was answered, and the table
\* is empty again
TableDrained ==
    \E n \in KNodes, h \in Sends :
        /\ hnode[h] = n
        /\ pc[h] = "done"
        /\ Len(ids[n]) >= 5
        /\ rpc[n] = EmptyMap

\* handler h is suspended in rpc and its reply has not been handled
Waiting(h) ==
    /\ pc[h] \in {"read", "cas", "write_msg", "write_latest"}
    /\ rx[h] = NoMsg

\* C19: an rpc in flight never blocks other event processing: a handler
\* suspended in rpc holds neither the table lock nor the output lock, every
\* reply in flight to a node whose input is open can be dispatched and
\* handled, and so can a further request, whatever handlers are waiting.
RpcNeverBlocks ==
    /\ \A h \in Sends : Waiting(h) => locks[h] = {}
    /\ \A m \in wire :
          (m.dest \in KNodes /\ ~closed[m.dest]) => ENABLED RecvReply(m)
    /\ \A n \in KNodes :
          (~closed[n] /\ kid[n] <= MaxId /\ \E h \in Sends : pc[h] = "new") =>
              ENABLED (\E h \in Sends : RecvSend(h, n, "k1", MsgOf(h)))

\* two handlers wait in rpc and the reply to one of them is in flight
ReplyWhileWaiting ==
    \E g \in Sends, h \in Sends, m \in wire :
        /\ g # h
        /\ Waiting(g) /\ Waiting(h)
        /\ m.dest = hnode[g]
        /\ m.in_reply_to = sent[g]
        /\ ~closed[hnode[g]]

\* an event is handed to a handler task of node n in this step: a send
\* request, or a reply of the store
Dispatched(n) ==
    \/ \E h \in Sends : hnode[h] # n /\ hnode'[h] = n
    \/ \E m \in wire \ wire' : m.dest = n
    \/ dups' # dups

\* C11: a handler error that is not a recoverable store error (here: a reply
\* that matches no waiter) terminates the node: no event is dispatched after
\* the failure and event_loop does not return Ok.
FailureStopsNode ==
    [][\A n \in KNodes :
          panicked[n] => (~Dispatched(n) /\ result'[n] # "Ok")]_vars

\* C12: when the input stream of a node has closed, exactly one EOF event
\* has been put on its event channel for the handler.
EofDeliveredOnce == \A n \in KNodes : closed[n] => eof[n] = 1

(***************************************************************************)
(* Properties of the counter.                                              *)
(***************************************************************************)
Total == SumOver(added, CNodes)

\* C2: once the adds have stopped, with the timer firing and every sync
\* delivered, read() on every node returns the exact sum of all deltas, and
\* keeps returning it.
CounterConverges == <>[](\A n \in CNodes : ReadValue(n) = Total)

\* every node has added, every node reads the total, a read returned it
ConvergedAfterAdds ==
    /\ \A n \in CNodes : added[n] > 0
    /\ \A n \in CNodes : ReadValue(n) = Total
    /\ lastRead # NoRead
    /\ lastRead.value = Total

\* C7: no add, sync (duplicated, reordered or stale) or timer tick lowers an
\* entry of a shard map, and the value read() returns never decreases.
ShardsNeverDecrease ==
    [][\A n \in CNodes :
          /\ \A m \in CNodes : counter[n][m] <= counter'[n][m]
          /\ ReadValue(n) <= ReadValue(n)']_vars

\* a sync carrying less than the stored shard has arrived
StaleSyncArrived == stale /\ \E n \in CNodes, m \in CNodes : counter[n][m] > 0

\* C8: a node's value for a peer's shard is at most the peer's own value of
\* it, so read() returns at most the sum of all deltas added so far.
NeverOverCounts ==
    /\ \A i \in CNodes, j \in CNodes : counter[i][j] <= counter[j][j]
    /\ \A n \in CNodes : ReadValue(n) <= Total
    /\ lastRead.value <= Total

\* a read returned less than the total after a sync was merged
ReadUnderCounts ==
    /\ lastRead # NoRead
    /\ lastRead.value < Total
    /\ \E i \in CNodes, j \in CNodes : i # j /\ counter[i][j] > 0

\* C23: an add handled by node n increases the own shard of n by exactly
\* its delta and leaves the other shards of n unchanged, whatever add, read,
\* sync and timer handlers interleave: the own shard of n always equals the
\* sum of the deltas n has applied, and a read on n that has merged no sync
\* returns that sum.
NoLostAdd ==
    /\ [](\A n \in CNodes : counter[n][n] = added[n])
    /\ [][\A n \in CNodes :
            /\ added'[n] # added[n] =>
                  /\ counter'[n][n] - counter[n][n] = added'[n] - added[n]
                  /\ \A m \in CNodes \ {n} : counter'[n][m] = counter[n][m]
            /\ ( /\ lastRead' # lastRead
                 /\ lastRead'.node = n
                 /\ \A m \in CNodes \ {n} : counter[n][m] = 0 )
                  => lastRead'.value = added[n]]_vars

\* a node that merged no sync has applied adds up to the bound, its timer
\* handler is in the middle of its loop, and a read returned the sum
ReadOwnAdds ==
    \E n \in CNodes :
        /\ added[n] = MaxTotal
        /\ \A m \in CNodes \ {n} : counter[n][m] = 0
        /\ pos[n] # 0
        /\ syncs # {}
        /\ lastRead = [node |-> n, value |-> MaxTotal]

\* C24: the sync merge is idempotent and commutative: merging the same sync
\* twice gives the shard map that merging it once gives, merging two syncs
\* in either order gives the same shard map, and a sync from peer p changes
\* only the shard of p.
MergeIdempotentCommutative ==
    \A a \in CNodes :
        \A m1 \in syncs, m2 \in syncs :
            (m1.dest = a /\ m2.dest = a) =>
                LET once == MergeSync(counter[a], m1)
                IN  /\ MergeSync(once, m1) = once
                    /\ MergeSync(once, m2)
                           = MergeSync(MergeSync(counter[a], m2), m1)
                    /\ \A k \in CNodes \ {m1.src} : once[k] = counter[a][k]

\* two syncs of one peer with different values, both above the stored
\* shard, are in flight to a node that holds a shard of its own
TwoSyncsInFlight ==
    \E m1 \in syncs, m2 \in syncs :
        /\ m1.dest = m2.dest /\ m1.src = m2.src
        /\ counter[m1.dest][m1.src] < m1.value
        /\ m1.value < m2.value
        /\ counter[m1.dest][m1.dest] > 0

\* C26: every CAS the send handler issues for latest:{key} has from =
\* candidate - 1 and to = candidate, and asks the store to create the key
\* if missing only when the candidate is 0: for a candidate above 0 the
\* flag is false.
CasCreatesOnlyAtZero ==
    \A h \in Sends :
        (call[h] # NoCall /\ call[h].type = "cas") =>
            /\ call[h].key = latest_key(hkey[h])
            /\ call[h].from = start[h] - 1
            /\ call[h].to = start[h]
            /\ call[h].put = (start[h] = 0)

(***************************************************************************)
(* Properties of the log without contention.                               *)
(***************************************************************************)
\* the sends to the key of h dispatched before h
EarlierSends(h) == {g \in Sends : g < h /\ hkey[g] = hkey[h] /\ pc[g] # "new"}

\* C25: when the sends are handled one at a time, starting from an absent
\* latest:{key}, the first send to a key is answered with offset 0 and the
\* k-th with offset k - 1, with no gaps and no repeats.
OffsetsConsecutive ==
    \A h \in Sends :
        acked[h] => start[h] = Cardinality(EarlierSends(h))

\* every send went to one key, one after the other, and was answered
AllSentToOneKey ==
    \E key \in Keys :
        /\ \A h \in Sends : acked[h] /\ hkey[h] = key
        /\ kv[latest_key(key)] = MaxSends - 1

(***************************************************************************)
(* Properties of the broadcast.                                            *)
(***************************************************************************)
\* C3: with a connected neighbor graph, the timer firing and gossip
\* delivered, a value in the message set of any node is eventually in the
\* message set of every node.
GossipConverges ==
    Connected(topology) =>
        <>[](\A a \in BNodes, b \in BNodes : msgs[a] \subseteq msgs[b])

\* a value is known to every node of a connected graph, learned by gossip
EveryNodeHasValue ==
    /\ Connected(topology)
    /\ neighbors = topology
    /\ \E v \in Values : \A n \in BNodes : v \in msgs[n]
    /\ \A n \in BNodes : \E m \in BNodes : known[n][m] # {}

\* C20: a timer tick leaves the peer knowledge and the message set of its
\* node unchanged: what is sent to a neighbor is not added to
\* known[neighbor]; known[n][p] changes only when n receives a gossip
\* message from p, by the values of that message.
TickKeepsKnowledge ==
    [][/\ gossips' # gossips => (known' = known /\ msgs' = msgs)
       /\ \A n \in BNodes, p \in BNodes :
             known'[n][p] # known[n][p] =>
                 \E m \in gossips :
                     /\ m.src = p
                     /\ m.dest = n
                     /\ known'[n][p] = known[n][p] \cup m.seen]_vars

\* a tick sent a value to a neighbor and the sender does not hold it as
\* known to that neighbor, while another node learned a peer's values from
\* a gossip message
SentNotKnown ==
    /\ \E m \in gossips : \E v \in m.seen : v \notin known[m.src][m.dest]
    /\ \E n \in BNodes, p \in BNodes : known[n][p] # {}

\* C21: a tick sends a gossip message to a configured neighbor only when the
\* difference msgs \ known[neighbor] is not empty: no gossip message with
\* an empty seen set is ever sent, and none to a node that is not a
\* neighbor of its sender.
GossipOnlyNews ==
    \A m \in gossips : m.seen # {} /\ m.dest \in topology[m.src]

\* C22: peer knowledge is a lower bound: known[a][b] is a subset of the
\* message set of b and of the message set of a; receiving Gossip{seen}
\* from b adds exactly seen to known[a][b] and to the message set of a and
\* changes the entry of no other peer.
KnownIsLowerBound ==
    /\ [](\A a \in BNodes, b \in BNodes :
            known[a][b] \subseteq msgs[b] /\ known[a][b] \subseteq msgs[a])
    /\ [][\A a \in BNodes, b \in BNodes :
            known'[a][b] # known[a][b] =>
                \E m \in gossips :
                    /\ m.src = b /\ m.dest = a
                    /\ known'[a][b] = known[a][b] \cup m.seen
                    /\ msgs'[a] = msgs[a] \cup m.seen
                    /\ \A c \in BNodes \ {b} : known'[a][c] = known[a][c]]_vars

\* a node learned the values of one peer from its gossip and holds nothing
\* as known to another peer
LearnedFromPeer ==
    \E a \in BNodes, b \in BNodes, c \in BNodes :
        /\ a # b /\ c # b
        /\ known[a][b] # {}
        /\ known[a][c] = {}

\* C9: no event removes a value from the message set of a node, and a
\* read_ok carries the whole message set, so a value once accepted is in
\* every later read_ok; adding a value already present changes nothing.
MsgsOnlyGrow ==
    [][/\ \A n \in BNodes : msgs[n] \subseteq msgs'[n]
       /\ lastSeen' # lastSeen => lastSeen'.msgs = msgs[lastSeen'.node]]_vars

\* a node read its set after it learned a value by gossip
ReadAfterGossip ==
    /\ lastSeen # NoSeen
    /\ lastSeen.msgs # {}
    /\ \E m \in BNodes : known[lastSeen.node][m] # {}

(***************************************************************************)
(* Properties of the unique ids.                                           *)
(***************************************************************************)
\* C27: generated ids are globally unique: with the generate requests
\* dispatched concurrently, no two generate_ok replies, of one node or of
\* different nodes, carry the same id string.
GuidsUnique ==
    \A g \in Gens, f \in Gens :
        (g # f /\ gpc[g] = "done" /\ gpc[f] = "done") => guid[g] # guid[f]


====
